---- MODULE Spec2Model ----
(***************************************************************************)
(* A model of the ai-policy backend: the request path (query_rag,          *)
(* generate_policy), the background evaluation threads and the metrics     *)
(* log they share (metrics.py, metrics_api.py), the index build/load       *)
(* decision (rag_index.py), the history rewriter (rag_query.py) and the    *)
(* score interpretation (metrics.py).                                      *)
(*                                                                         *)
(* Scores are exact rationals [num, den]; den = 0 stands for a float NaN.  *)
(* Text is a sequence of one-character strings.  The metrics file is a     *)
(* sequence of JSON tokens, written at a file offset and parsed on read.   *)
(***************************************************************************)
EXTENDS Integers, Sequences, FiniteSets, TLC

VARIABLES
    \* ---- the metrics log and the threads that touch it
    file,       \* metrics_log.json: [exists, bytes]
    fg,         \* request handler position, per request
    kind,       \* "rag" (query_rag) or "policy" (generate_policy), per request
    ans,        \* the language model's output held by the handler
    response,   \* what the handler returned to its caller
    raised,     \* the exception the handler raised to its caller
    bg,         \* background evaluation thread position, per request
    rec,        \* the record the thread collected
    loaded,     \* save_metrics' local all_metrics
    printed,    \* what the thread's except clause printed
    apiPc,      \* position of the metrics API worker
    apiOut,     \* the last response of a metrics API call
    apiCalls,   \* number of metrics API calls made
    cleared,    \* whether clear_metrics has been called
    preClear,   \* the records the log held when clear_metrics was called
    \* ---- build_or_load_index
    snapshot,   \* INDEX_DIR: [exists, content]
    corpus,     \* version of the documents under data/policies
    envForce,   \* value of the environment variable FORCE_REBUILD
    idxCall,    \* the last build_or_load_index call: [arg, op, hadSnapshot, env, db]
    idxCalls,   \* number of calls made
    \* ---- rewrite_question_with_history
    rwQuestion, rwHistory, rwOut,
    \* ---- evaluate_with_ragas / collect_*_metrics / _interpret_ragas_scores
    evIn,       \* the inputs of one evaluation
    evOut,      \* its outputs
    evPc

concVars == <<file, fg, kind, ans, response, raised, bg, rec, loaded, printed,
              apiPc, apiOut, apiCalls, cleared, preClear>>
idxVars == <<snapshot, corpus, envForce, idxCall, idxCalls>>
rwVars == <<rwQuestion, rwHistory, rwOut>>
evVars == <<evIn, evOut, evPc>>
vars == <<concVars, idxVars, rwVars, evVars>>

(***************************************************************************)
(* Bounds                                                                  *)
(***************************************************************************)
NReq == 2
MaxApiCalls == 1
MaxIdxCalls == 3
MaxHist == 7
MaxCtx == 2
MaxInstant == 1
MaxCorpus == 2
MaxLogCalls == 4

Reqs == 1..NReq

(***************************************************************************)
(* Numbers: Python floats as exact rationals, NaN as den = 0               *)
(***************************************************************************)
RECURSIVE Gcd(_, _)
Gcd(a, b) == IF b = 0 THEN a ELSE Gcd(b, a % b)

R(n, d) == IF d = 0 THEN [num |-> 0, den |-> 0]
           ELSE LET g == Gcd(n, d) IN IF g = 0 THEN [num |-> 0, den |-> 1]
                                      ELSE [num |-> n \div g, den |-> d \div g]
NaN == [num |-> 0, den |-> 0]
Zero == R(0, 1)
IsNaN(x) == x.den = 0
Geq(a, b) == ~IsNaN(a) /\ ~IsNaN(b) /\ a.num * b.den >= b.num * a.den
Lt(a, b) == ~IsNaN(a) /\ ~IsNaN(b) /\ a.num * b.den < b.num * a.den
Add(a, b) == IF IsNaN(a) \/ IsNaN(b) THEN NaN
             ELSE R(a.num * b.den + b.num * a.den, a.den * b.den)
DivInt(a, n) == IF IsNaN(a) THEN NaN ELSE R(a.num, a.den * n)

\* dict.get(key, default)
Get(d, k, default) == IF k \in DOMAIN d THEN d[k] ELSE default

RECURSIVE SumSeq(_)
SumSeq(s) == IF s = <<>> THEN Zero ELSE Add(Head(s), SumSeq(Tail(s)))

(***************************************************************************)
(* Text: a str is a sequence of one-character strings                      *)
(***************************************************************************)
\* str.lower() on the characters the model uses
LowerChar(c) ==
    CASE c = "A" -> "a" [] c = "B" -> "b" [] c = "C" -> "c" [] c = "E" -> "e"
      [] c = "R" -> "r" [] c = "S" -> "s" [] c = "T" -> "t" [] c = "U" -> "u"
      [] c = "Y" -> "y" [] OTHER -> c

Lower(s) == [i \in 1..Len(s) |-> LowerChar(s[i])]

\* str.split(): the maximal runs of non-blank characters, in order
RECURSIVE SplitFrom(_, _, _, _)
SplitFrom(s, i, word, acc) ==
    IF i > Len(s) THEN (IF word = <<>> THEN acc ELSE Append(acc, word))
    ELSE IF s[i] = " " THEN SplitFrom(s, i + 1, <<>>, IF word = <<>> THEN acc ELSE Append(acc, word))
    ELSE SplitFrom(s, i + 1, Append(word, s[i]), acc)

Split(s) == SplitFrom(s, 1, <<>>, <<>>)

\* set(text.lower().split())
WordSet(s) == LET w == Split(Lower(s)) IN {w[i] : i \in 1..Len(w)}

RECURSIVE Concat(_)
Concat(ss) == IF ss = <<>> THEN <<>> ELSE Head(ss) \o Concat(Tail(ss))

\* sep.join(parts)
RECURSIVE Join(_, _)
Join(sep, parts) ==
    IF parts = <<>> THEN <<>>
    ELSE IF Len(parts) = 1 THEN parts[1]
    ELSE parts[1] \o sep \o Join(sep, Tail(parts))

(***************************************************************************)
(* metrics.py: evaluate_with_ragas and the lexical-overlap metrics          *)
(***************************************************************************)
Half == R(1, 2)

\* a fallback that zeroes the scores and forgets the aggregate
DefaultMetricsZeroed ==
    [faithfulness |-> R(0, 1), answer_relevancy |-> R(0, 1), context_precision |-> R(0, 1),
     context_recall |-> R(0, 1)]

\* the except branch of evaluate_with_ragas
DefaultMetrics ==
    [faithfulness |-> Half, answer_relevancy |-> Half, context_precision |-> Half,
     context_recall |-> Half, ragas_score |-> Half]

LibMetricNames == {"faithfulness", "answer_relevancy"}

\* overlap >= len(query_words) * 0.3
MeetsThreshold(overlap, nQueryWords) == overlap * 10 >= nQueryWords * 3

RelevantContexts(query, contexts) ==
    {i \in 1..Len(contexts) :
        MeetsThreshold(Cardinality(WordSet(query) \cap WordSet(contexts[i])),
                       Cardinality(WordSet(query)))}

CalculateContextPrecision(query, contexts) ==
    IF contexts = <<>> THEN Zero
    ELSE R(Cardinality(RelevantContexts(query, contexts)), Len(contexts))

CalculateContextRecall(query, contexts) ==
    IF contexts = <<>> THEN Zero
    ELSE LET query_words == WordSet(query)
             all_context_words == UNION {WordSet(contexts[i]) : i \in 1..Len(contexts)}
             covered_terms == Cardinality(query_words \cap all_context_words)
         IN IF query_words # {} THEN R(covered_terms, Cardinality(query_words)) ELSE Zero

\* A value the evaluation library hands back for one metric:
\*   [k |-> "num", v |-> score]      an int or float (v may be NaN)
\*   [k |-> "list", v |-> <<...>>]   an array-like with tolist()
\*   [k |-> "other"]                 anything else (None, a string)
\* float(value) of a pandas cell: raises on a value that is no number
CellFloatRaises(cell) == cell.k # "num"

\* the to_pandas branch: only the two library columns are read
ExtractPandas(lib) ==
    LET cols == DOMAIN lib.vals \cap LibMetricNames
    IN IF lib.rows > 0 /\ \E c \in cols : CellFloatRaises(lib.vals[c])
       THEN [raised |-> TRUE, dict |-> << >>]
       ELSE [raised |-> FALSE,
             dict |-> [c \in cols |-> IF lib.rows > 0 THEN lib.vals[c].v ELSE Zero]]

\* the attribute branch and the iteration fallback: numbers are taken as they
\* are, array-likes by their first element (0.0 when empty), other values skipped
ExtractByValue(lib) ==
    LET cols == {c \in DOMAIN lib.vals \cap LibMetricNames : lib.vals[c].k \in {"num", "list"}}
    IN [raised |-> FALSE,
        dict |-> [c \in cols |->
                    IF lib.vals[c].k = "num" THEN lib.vals[c].v
                    ELSE IF Len(lib.vals[c].v) > 0 THEN lib.vals[c].v[1] ELSE Zero]]

\* the iteration fallback stops at the first exception and keeps what it has:
\* lib.upto is the set of metrics it yielded before raising
ExtractIter(lib) ==
    LET all == ExtractByValue(lib).dict
    IN [raised |-> FALSE, dict |-> [c \in DOMAIN all \cap lib.upto |-> all[c]]]

ExtractMetrics(lib) ==
    CASE lib.shape = "pandas" -> ExtractPandas(lib)
      [] lib.shape = "attrs" -> ExtractByValue(lib)
      [] OTHER -> ExtractIter(lib)

\* sum(metrics_dict.values()) / len(metrics_dict)
MeanOf(d) ==
    LET RECURSIVE SumOver(_)
        SumOver(ks) == IF ks = {} THEN Zero
                       ELSE LET k == CHOOSE x \in ks : TRUE
                            IN Add(d[k], SumOver(ks \ {k}))
    IN DivInt(SumOver(DOMAIN d), Cardinality(DOMAIN d))

WithContextMetrics(d, query, contexts) ==
    ("context_precision" :> CalculateContextPrecision(query, contexts)) @@
    ("context_recall" :> CalculateContextRecall(query, contexts)) @@ d

\* a mean that always divides by the four metric names
WithRagasScoreOverFour(d) ==
    LET RECURSIVE SumOver(_)
        SumOver(ks) == IF ks = {} THEN Zero
                       ELSE LET k == CHOOSE x \in ks : TRUE
                            IN Add(d[k], SumOver(ks \ {k}))
    IN IF DOMAIN d # {} THEN ("ragas_score" :> DivInt(SumOver(DOMAIN d), 4)) @@ d ELSE d

WithRagasScore(d) ==
    IF DOMAIN d # {} THEN ("ragas_score" :> MeanOf(d)) @@ d ELSE d

EvaluateWithRagas(query, answer, contexts, lib) ==
    IF lib.shape = "raise" THEN DefaultMetrics
    ELSE LET ex == ExtractMetrics(lib)
         IN IF ex.raised THEN DefaultMetrics
            ELSE WithRagasScore(WithContextMetrics(ex.dict, query, contexts))

(***************************************************************************)
(* metrics.py: _interpret_ragas_scores, _get_recommendations                *)
(***************************************************************************)
ExcellentMin == R(8, 10)
GoodMin == R(6, 10)
FairMin == R(4, 10)
StrengthMin == R(8, 10)
WeaknessBelow == R(5, 10)
RecommendBelow == R(6, 10)

\* tiers cut with > where the code has >=
OverallQualityStrict(ragas_metrics) ==
    LET ragas_score == Get(ragas_metrics, "ragas_score", Zero)
    IN IF Geq(ragas_score, ExcellentMin) /\ ragas_score # ExcellentMin THEN "Excellent"
       ELSE IF Geq(ragas_score, GoodMin) /\ ragas_score # GoodMin THEN "Good"
       ELSE IF Geq(ragas_score, FairMin) /\ ragas_score # FairMin THEN "Fair"
       ELSE "Poor"

OverallQuality(ragas_metrics) ==
    LET ragas_score == Get(ragas_metrics, "ragas_score", Zero)
    IN IF Geq(ragas_score, ExcellentMin) THEN "Excellent"
       ELSE IF Geq(ragas_score, GoodMin) THEN "Good"
       ELSE IF Geq(ragas_score, FairMin) THEN "Fair"
       ELSE "Poor"

MetricOrder == <<"faithfulness", "answer_relevancy", "context_precision", "context_recall">>

StrengthText(m) ==
    CASE m = "faithfulness" -> "High faithfulness to context"
      [] m = "answer_relevancy" -> "High answer relevancy"
      [] m = "context_precision" -> "High context precision"
      [] OTHER -> "High context recall"

WeaknessText(m) ==
    CASE m = "faithfulness" -> "Low faithfulness to context"
      [] m = "answer_relevancy" -> "Low answer relevancy"
      [] m = "context_precision" -> "Low context precision"
      [] OTHER -> "Low context recall"

RecommendationText(m) ==
    CASE m = "faithfulness" -> "Improve answer faithfulness to retrieved context"
      [] m = "answer_relevancy" -> "Improve answer relevancy to the query"
      [] m = "context_precision" -> "Improve context retrieval precision"
      [] OTHER -> "Improve context retrieval recall"

ContinueText == "System performance is good - continue current approach"

IsStrength(v) == Geq(v, StrengthMin)
\* the elif: reached only when the score is not a strength
IsWeakness(v) == ~Geq(v, StrengthMin) /\ Lt(v, WeaknessBelow)
NeedsRecommendation(v) == Lt(v, RecommendBelow)

\* the four if-blocks run in MetricOrder, each appending at most one text
Strengths(ragas_metrics) ==
    LET hit == SelectSeq(MetricOrder, LAMBDA m : IsStrength(Get(ragas_metrics, m, Zero)))
    IN [i \in 1..Len(hit) |-> StrengthText(hit[i])]

Weaknesses(ragas_metrics) ==
    LET hit == SelectSeq(MetricOrder, LAMBDA m : IsWeakness(Get(ragas_metrics, m, Zero)))
    IN [i \in 1..Len(hit) |-> WeaknessText(hit[i])]

GetRecommendations(ragas_metrics) ==
    LET hit == SelectSeq(MetricOrder, LAMBDA m : NeedsRecommendation(Get(ragas_metrics, m, Zero)))
        recommendations == [i \in 1..Len(hit) |-> RecommendationText(hit[i])]
    IN IF recommendations = <<>> THEN <<ContinueText>> ELSE recommendations

InterpretRagasScores(ragas_metrics) ==
    [overall_quality |-> OverallQuality(ragas_metrics),
     strengths |-> Strengths(ragas_metrics),
     weaknesses |-> Weaknesses(ragas_metrics),
     recommendations |-> GetRecommendations(ragas_metrics)]

(***************************************************************************)
(* metrics.py: collect_rag_metrics, collect_policy_metrics                  *)
(***************************************************************************)
RECURSIVE SumLen(_)
SumLen(ss) == IF ss = <<>> THEN 0 ELSE Len(Head(ss)) + SumLen(Tail(ss))

CollectRagMetrics(query, answer, contexts, lib, now) ==
    LET ragas_metrics == EvaluateWithRagas(query, answer, contexts, lib)
    IN [timestamp |-> now,
        query |-> query,
        ragas_metrics |-> ragas_metrics,
        num_retrieved_docs |-> Len(contexts),
        context_length |-> SumLen(contexts),
        interpretation |-> InterpretRagasScores(ragas_metrics)]

\* f"Generate AI policy for {target_country} educational institution"
PolicyQuery(target_country) ==
    <<"G", "e", "n", "e", "r", "a", "t", "e", " ", "A", "I", " ", "p", "o", "l", "i", "c", "y", " ", "f", "o", "r", " ">> \o target_country \o <<" ", "e", "d", "u", "c", "a", "t", "i", "o", "n", "a", "l", " ", "i", "n", "s", "t", "i", "t", "u", "t", "i", "o", "n">>

CollectPolicyMetrics(generated_policy, contexts, target_country, lib, now) ==
    LET ragas_metrics == EvaluateWithRagas(PolicyQuery(target_country), generated_policy,
                                           contexts, lib)
    IN [timestamp |-> now,
        target_country |-> target_country,
        ragas_metrics |-> ragas_metrics,
        num_retrieved_sources |-> Len(contexts),
        policy_length |-> Len(generated_policy),
        interpretation |-> InterpretRagasScores(ragas_metrics)]

(***************************************************************************)
(* The metrics log file: JSON text as a sequence of tokens                  *)
(***************************************************************************)
LBrace == [t |-> "{"]
RBrace == [t |-> "}"]
LBracket == [t |-> "["]
RBracket == [t |-> "]"]
KeyTok(k) == [t |-> "key", k |-> k]
RecTok(r) == [t |-> "rec", v |-> r]
\* a hole left by a write past the end of the file
NulTok == [t |-> "nul"]

\* A dict of lists is a sequence of entries [k, v] in insertion order.
DictHas(m, k) == \E i \in 1..Len(m) : m[i].k = k
DictGet(m, k) == m[CHOOSE i \in 1..Len(m) : m[i].k = k].v
DictSet(m, k, v) ==
    IF DictHas(m, k) THEN [i \in 1..Len(m) |-> IF m[i].k = k THEN [k |-> k, v |-> v] ELSE m[i]]
    ELSE Append(m, [k |-> k, v |-> v])

\* json.dump(all_metrics, f)
JsonDump(m) ==
    <<LBrace>> \o
    Concat([i \in 1..Len(m) |->
              <<KeyTok(m[i].k), LBracket>> \o [j \in 1..Len(m[i].v) |-> RecTok(m[i].v[j])]
              \o <<RBracket>>]) \o
    <<RBrace>>

ParseFail == [ok |-> FALSE, next |-> 0, val |-> <<>>]

RECURSIVE ParseList(_, _, _)
ParseList(s, i, acc) ==
    IF i > Len(s) THEN ParseFail
    ELSE IF s[i].t = "rec" THEN ParseList(s, i + 1, Append(acc, s[i].v))
    ELSE IF s[i].t = "]" THEN [ok |-> TRUE, next |-> i + 1, val |-> acc]
    ELSE ParseFail

RECURSIVE ParseEntries(_, _, _)
ParseEntries(s, i, m) ==
    IF i > Len(s) THEN ParseFail
    ELSE IF s[i].t = "}" THEN (IF i = Len(s) THEN [ok |-> TRUE, next |-> i + 1, val |-> m]
                               ELSE ParseFail)
    ELSE IF s[i].t = "key" /\ i + 1 <= Len(s) /\ s[i + 1].t = "["
         THEN LET l == ParseList(s, i + 2, <<>>)
              IN IF l.ok THEN ParseEntries(s, l.next, DictSet(m, s[i].k, l.val)) ELSE ParseFail
    ELSE ParseFail

\* json.load(f): the whole text must be one object; anything else raises JSONDecodeError
JsonLoad(s) ==
    IF Len(s) >= 1 /\ s[1].t = "{" THEN ParseEntries(s, 2, <<>>) ELSE ParseFail

\* open(path, 'w'): creates the file or truncates it to zero length
OpenW(f) == [exists |-> TRUE, bytes |-> <<>>]

\* a write of toks at offset o through a descriptor opened before: the bytes
\* beyond the written range stay, a gap below it is filled with NUL
WriteAt(f, o, toks) ==
    LET n == IF Len(f.bytes) > o + Len(toks) THEN Len(f.bytes) ELSE o + Len(toks)
    IN [exists |-> TRUE,
        bytes |-> [i \in 1..n |-> IF i > o /\ i <= o + Len(toks) THEN toks[i - o]
                                  ELSE IF i <= Len(f.bytes) THEN f.bytes[i]
                                  ELSE NulTok]]

\* an append that starts the partition afresh on every call
AppendRecordFresh(all_metrics, metric_type, metrics) ==
    DictSet(all_metrics, metric_type, <<metrics>>)

\* all_metrics after lines 263-266 of save_metrics
AppendRecord(all_metrics, metric_type, metrics) ==
    LET withKey == IF ~DictHas(all_metrics, metric_type)
                   THEN DictSet(all_metrics, metric_type, <<>>) ELSE all_metrics
    IN DictSet(withKey, metric_type, Append(DictGet(withKey, metric_type), metrics))

\* the records of all partitions of the log as a reader would load it now
LogRecords(f) ==
    LET p == JsonLoad(f.bytes)
    IN IF f.exists /\ p.ok
       THEN UNION {{p.val[i].v[j] : j \in 1..Len(p.val[i].v)} : i \in 1..Len(p.val)}
       ELSE {}

\* number of records of partition k in the log as a reader would load it now
Partition(f, k) ==
    LET p == JsonLoad(f.bytes)
    IN IF f.exists /\ p.ok /\ DictHas(p.val, k) THEN DictGet(p.val, k) ELSE <<>>

(***************************************************************************)
(* metrics.py: get_metrics_summary                                          *)
(***************************************************************************)
RagasScores(metrics_list) ==
    [i \in 1..Len(metrics_list) |-> Get(metrics_list[i], "ragas_metrics", <<>>)]

AvgScore(metrics_list, field) ==
    LET ragas_scores == RagasScores(metrics_list)
    IN DivInt(SumSeq([i \in 1..Len(ragas_scores) |-> Get(ragas_scores[i], field, Zero)]),
              Len(ragas_scores))

RECURSIVE SumNat(_)
SumNat(s) == IF s = <<>> THEN 0 ELSE Head(s) + SumNat(Tail(s))

AvgRetrievedDocs(metrics_list) ==
    R(SumNat([i \in 1..Len(metrics_list) |->
                Get(metrics_list[i], "num_retrieved_docs",
                    Get(metrics_list[i], "num_retrieved_sources", 0))]),
      Len(metrics_list))

SummaryOf(metrics_list) ==
    [total_queries |-> Len(metrics_list),
     avg_ragas_score |-> AvgScore(metrics_list, "ragas_score"),
     avg_faithfulness |-> AvgScore(metrics_list, "faithfulness"),
     avg_answer_relevancy |-> AvgScore(metrics_list, "answer_relevancy"),
     avg_context_precision |-> AvgScore(metrics_list, "context_precision"),
     avg_context_recall |-> AvgScore(metrics_list, "context_recall"),
     avg_retrieved_docs |-> AvgRetrievedDocs(metrics_list)]

\* a loop that does not skip the partitions with an empty list
SummarizeEveryPartition(all_metrics) ==
    LET keys == {all_metrics[i].k : i \in 1..Len(all_metrics)}
    IN [k \in keys |-> SummaryOf(DictGet(all_metrics, k))]

\* the loop over all_metrics.items(): partitions with an empty list are skipped
Summarize(all_metrics) ==
    LET keys == {all_metrics[i].k : i \in {j \in 1..Len(all_metrics) : all_metrics[j].v # <<>>}}
    IN [k \in keys |-> SummaryOf(DictGet(all_metrics, k))]

(***************************************************************************)
(* The request path and the background evaluation threads                   *)
(***************************************************************************)
Instants == 1..MaxInstant

\* what the language model may answer
Answers == {<<"o", "k">>, <<"n", "o">>}

\* the question of a /ask request and the documents retrieved for it
RagQuestion == <<"a", " ", "b">>
RetrievedDocs == << <<"A", " ", "c">> >>
\* the country of a /generate-policy request
PolicyCountry == <<"c">>

LibRaises == [shape |-> "raise"]
LibScores(f, a) ==
    [shape |-> "pandas", rows |-> 1, upto |-> {},
     vals |-> [faithfulness |-> [k |-> "num", v |-> f],
               answer_relevancy |-> [k |-> "num", v |-> a]]]

\* what the evaluation library may do in a background thread
ThreadLibs == {LibRaises, LibScores(R(9, 10), R(9, 10))}

NoResponse == [kind |-> "none"]
NoRecord == [timestamp |-> 0]
NoApiOut == [op |-> "none", status |-> "none"]

ConcInit ==
    /\ file \in {[exists |-> FALSE, bytes |-> <<>>], [exists |-> TRUE, bytes |-> JsonDump(<<>>)]}
    /\ fg = [r \in Reqs |-> "idle"]
    /\ kind = [r \in Reqs |-> "none"]
    /\ ans = [r \in Reqs |-> <<>>]
    /\ response = [r \in Reqs |-> NoResponse]
    /\ raised = [r \in Reqs |-> "none"]
    /\ bg = [r \in Reqs |-> "none"]
    /\ rec = [r \in Reqs |-> NoRecord]
    /\ loaded = [r \in Reqs |-> <<>>]
    /\ printed = [r \in Reqs |-> "none"]
    /\ apiPc = "idle"
    /\ apiOut = NoApiOut
    /\ apiCalls = 0
    /\ cleared = FALSE /\ preClear = {}

apiVars == <<apiPc, apiOut, apiCalls, cleared, preClear>>
bgVars == <<bg, rec, loaded, printed>>
fgVars == <<fg, kind, ans, response, raised>>
notConc == <<idxVars, rwVars, evVars>>

\* query_rag up to the model call: qa_chain.invoke either raises, and the
\* exception leaves query_rag, or yields the answer and the source documents
QueryRagInvoke(r) ==
    /\ fg[r] = "idle"
    /\ kind' = [kind EXCEPT ![r] = "rag"]
    /\ \/ /\ fg' = [fg EXCEPT ![r] = "raised"]
          /\ raised' = [raised EXCEPT ![r] = "GenerationError"]
          /\ UNCHANGED ans
       \/ \E a \in Answers :
            /\ ans' = [ans EXCEPT ![r] = a]
            /\ fg' = [fg EXCEPT ![r] = "invoked"]
            /\ UNCHANGED raised
    /\ UNCHANGED <<response, file, bgVars, apiVars, notConc>>

\* collect_metrics_async: thread.start()
QueryRagSpawn(r) ==
    /\ fg[r] = "invoked" /\ kind[r] = "rag"
    /\ fg' = [fg EXCEPT ![r] = "spawned"]
    /\ bg' = [bg EXCEPT ![r] = "run"]
    /\ UNCHANGED <<kind, ans, response, raised, file, rec, loaded, printed, apiVars, notConc>>

\* a handler that joins the evaluation thread before it returns
QueryRagReturnJoined(r) ==
    /\ fg[r] = "spawned" /\ kind[r] = "rag"
    /\ bg[r] \in {"done", "failed"}
    /\ fg' = [fg EXCEPT ![r] = "returned"]
    /\ response' = [response EXCEPT ![r] = [kind |-> "answer", text |-> ans[r]]]
    /\ UNCHANGED <<kind, ans, raised, file, bgVars, apiVars, notConc>>

\* return answer
QueryRagReturn(r) ==
    /\ fg[r] = "spawned" /\ kind[r] = "rag"
    /\ fg' = [fg EXCEPT ![r] = "returned"]
    /\ response' = [response EXCEPT ![r] = [kind |-> "answer", text |-> ans[r]]]
    /\ UNCHANGED <<kind, ans, raised, file, bgVars, apiVars, notConc>>

\* a handler that starts the evaluation thread before the model call
GeneratePolicyInvokeSpawnFirst(r) ==
    /\ fg[r] = "idle"
    /\ kind' = [kind EXCEPT ![r] = "policy"]
    /\ \/ /\ fg' = [fg EXCEPT ![r] = "raised"]
          /\ raised' = [raised EXCEPT ![r] = "GenerationError"]
          /\ bg' = [bg EXCEPT ![r] = "run"]
          /\ UNCHANGED ans
       \/ \E a \in Answers :
            /\ ans' = [ans EXCEPT ![r] = a]
            /\ fg' = [fg EXCEPT ![r] = "invoked"]
            /\ UNCHANGED <<raised, bg>>
    /\ UNCHANGED <<response, file, rec, loaded, printed, apiVars, notConc>>

\* generate_policy up to the model call: the retriever or chain.run may raise
GeneratePolicyInvoke(r) ==
    /\ fg[r] = "idle"
    /\ kind' = [kind EXCEPT ![r] = "policy"]
    /\ \/ /\ fg' = [fg EXCEPT ![r] = "raised"]
          /\ raised' = [raised EXCEPT ![r] = "GenerationError"]
          /\ UNCHANGED ans
       \/ \E a \in Answers :
            /\ ans' = [ans EXCEPT ![r] = a]
            /\ fg' = [fg EXCEPT ![r] = "invoked"]
            /\ UNCHANGED raised
    /\ UNCHANGED <<response, file, bgVars, apiVars, notConc>>

GeneratePolicySpawn(r) ==
    /\ fg[r] = "invoked" /\ kind[r] = "policy"
    /\ fg' = [fg EXCEPT ![r] = "spawned"]
    /\ bg' = [bg EXCEPT ![r] = "run"]
    /\ UNCHANGED <<kind, ans, response, raised, file, rec, loaded, printed, apiVars, notConc>>

\* return PolicyGenerationResponse(generated_policy=result, metadata=...)
GeneratePolicyReturn(r) ==
    /\ fg[r] = "spawned" /\ kind[r] = "policy"
    /\ fg' = [fg EXCEPT ![r] = "returned"]
    /\ response' = [response EXCEPT ![r] =
                      [kind |-> "policy", generated_policy |-> ans[r],
                       country |-> PolicyCountry, retrieved_sources |-> Len(RetrievedDocs)]]
    /\ UNCHANGED <<kind, ans, raised, file, bgVars, apiVars, notConc>>

\* run_metrics: collect_rag_metrics(query, answer, retrieved_docs)
RunMetrics(r) ==
    /\ bg[r] = "run" /\ kind[r] = "rag"
    /\ \E lib \in ThreadLibs, now \in Instants :
         rec' = [rec EXCEPT ![r] = CollectRagMetrics(RagQuestion, ans[r], RetrievedDocs, lib, now)]
    /\ bg' = [bg EXCEPT ![r] = "save"]
    /\ UNCHANGED <<fgVars, file, loaded, printed, apiVars, notConc>>

\* _collect_policy_metrics_async: collect_policy_metrics(result, sources, country)
CollectPolicyMetricsAsync(r) ==
    /\ bg[r] = "run" /\ kind[r] = "policy"
    /\ \E lib \in ThreadLibs, now \in Instants :
         rec' = [rec EXCEPT ![r] = CollectPolicyMetrics(ans[r], RetrievedDocs, PolicyCountry, lib, now)]
    /\ bg' = [bg EXCEPT ![r] = "save"]
    /\ UNCHANGED <<fgVars, file, loaded, printed, apiVars, notConc>>

\* save_metrics line 256: os.path.exists
SaveExists(r) ==
    /\ bg[r] = "save"
    /\ bg' = [bg EXCEPT ![r] = IF file.exists THEN "read" ELSE "create"]
    /\ UNCHANGED <<fgVars, file, rec, loaded, printed, apiVars, notConc>>

\* line 257: open(metrics_file, 'w')
SaveCreateOpen(r) ==
    /\ bg[r] = "create"
    /\ file' = OpenW(file)
    /\ bg' = [bg EXCEPT ![r] = "create_dump"]
    /\ UNCHANGED <<fgVars, rec, loaded, printed, apiVars, notConc>>

\* line 258: json.dump({}, f), and the close that flushes it
SaveCreateDump(r) ==
    /\ bg[r] = "create_dump"
    /\ file' = WriteAt(file, 0, JsonDump(<<>>))
    /\ bg' = [bg EXCEPT ![r] = "read"]
    /\ UNCHANGED <<fgVars, rec, loaded, printed, apiVars, notConc>>

\* lines 260-266: open 'r', json.load, then the append to the local dict; a
\* decode error leaves save_metrics and is caught by the thread's except clause
SaveRead(r) ==
    /\ bg[r] = "read"
    /\ LET p == JsonLoad(file.bytes)
       IN IF file.exists /\ p.ok
          THEN /\ loaded' = [loaded EXCEPT ![r] = AppendRecord(p.val, kind[r], rec[r])]
               /\ bg' = [bg EXCEPT ![r] = "write"]
               /\ UNCHANGED printed
          ELSE /\ bg' = [bg EXCEPT ![r] = "failed"]
               /\ printed' = [printed EXCEPT ![r] =
                                IF file.exists THEN "JSONDecodeError" ELSE "FileNotFoundError"]
               /\ UNCHANGED loaded
    /\ UNCHANGED <<fgVars, file, rec, apiVars, notConc>>

\* line 268: open(metrics_file, 'w')
SaveWriteOpen(r) ==
    /\ bg[r] = "write"
    /\ file' = OpenW(file)
    /\ bg' = [bg EXCEPT ![r] = "dump"]
    /\ UNCHANGED <<fgVars, rec, loaded, printed, apiVars, notConc>>

\* line 269: json.dump(all_metrics, f, indent=2) fills the write buffer; leaving
\* the with block writes it at the descriptor's offset 0 and closes the file
SaveClose(r) ==
    /\ bg[r] = "dump"
    /\ file' = WriteAt(file, 0, JsonDump(loaded[r]))
    /\ bg' = [bg EXCEPT ![r] = "done"]
    /\ UNCHANGED <<fgVars, rec, loaded, printed, apiVars, notConc>>

(***************************************************************************)
(* metrics_api.py: the metrics endpoints, served by one worker              *)
(***************************************************************************)
\* GET /metrics/raw: open 'r' and json.load; only FileNotFoundError is caught
GetRawMetrics ==
    /\ apiPc = "idle" /\ apiCalls < MaxApiCalls
    /\ apiCalls' = apiCalls + 1
    /\ LET p == JsonLoad(file.bytes)
       IN apiOut' = IF ~file.exists THEN [op |-> "raw", status |-> "error", body |-> "No metrics data found"]
                    ELSE IF p.ok THEN [op |-> "raw", status |-> "ok", body |-> p.val]
                    ELSE [op |-> "raw", status |-> "raised", body |-> "JSONDecodeError"]
    /\ UNCHANGED <<apiPc, cleared, preClear, file, fgVars, bgVars, notConc>>

\* GET /metrics/summary, lines 337-338: os.path.exists
GetMetricsSummaryExists ==
    /\ apiPc = "idle" /\ apiCalls < MaxApiCalls
    /\ apiCalls' = apiCalls + 1
    /\ IF file.exists
       THEN apiPc' = "summary_load" /\ UNCHANGED apiOut
       ELSE /\ apiOut' = [op |-> "summary", status |-> "error", body |-> "No metrics file found"]
            /\ UNCHANGED apiPc
    /\ UNCHANGED <<cleared, preClear, file, fgVars, bgVars, notConc>>

\* lines 340-374: open 'r', json.load and the aggregation
GetMetricsSummaryLoad ==
    /\ apiPc = "summary_load"
    /\ apiPc' = "idle"
    /\ LET p == JsonLoad(file.bytes)
       IN apiOut' = IF file.exists /\ p.ok
                    THEN [op |-> "summary", status |-> "ok", body |-> Summarize(p.val)]
                    ELSE [op |-> "summary", status |-> "raised",
                          body |-> IF file.exists THEN "JSONDecodeError" ELSE "FileNotFoundError"]
    /\ UNCHANGED <<apiCalls, cleared, preClear, file, fgVars, bgVars, notConc>>

\* DELETE /metrics/clear, line 23: open(path, 'w')
ClearMetricsOpen ==
    /\ apiPc = "idle" /\ apiCalls < MaxApiCalls
    /\ apiCalls' = apiCalls + 1
    /\ file' = OpenW(file)
    /\ cleared' = TRUE
    /\ preClear' = LogRecords(file)
    /\ apiPc' = "clear_dump"
    /\ UNCHANGED <<apiOut, fgVars, bgVars, notConc>>

\* lines 24-25: json.dump({}, f), the close, and the response
ClearMetricsDump ==
    /\ apiPc = "clear_dump"
    /\ file' = WriteAt(file, 0, JsonDump(<<>>))
    /\ apiPc' = "idle"
    /\ apiOut' = [op |-> "clear", status |-> "ok", body |-> "Metrics cleared successfully"]
    /\ UNCHANGED <<apiCalls, cleared, preClear, fgVars, bgVars, notConc>>

(***************************************************************************)
(* Parked values of the variables a specification does not use              *)
(***************************************************************************)
ConcParked ==
    /\ file = [exists |-> FALSE, bytes |-> <<>>]
    /\ fg = <<>> /\ kind = <<>> /\ ans = <<>> /\ response = <<>> /\ raised = <<>>
    /\ bg = <<>> /\ rec = <<>> /\ loaded = <<>> /\ printed = <<>>
    /\ apiPc = "idle" /\ apiOut = NoApiOut /\ apiCalls = 0 /\ cleared = FALSE /\ preClear = {}

IdxParked ==
    /\ snapshot = [exists |-> FALSE, content |-> 0]
    /\ corpus = 0 /\ envForce = "unset" /\ idxCall = [op |-> "none"] /\ idxCalls = 0

RwParked == rwQuestion = <<>> /\ rwHistory = <<>> /\ rwOut = <<>>

EvParked == evIn = <<>> /\ evOut = <<>> /\ evPc = "parked"

(***************************************************************************)
(* Spec: requests, their evaluation threads and the metrics endpoints       *)
(***************************************************************************)
Init == ConcInit /\ IdxParked /\ RwParked /\ EvParked

Next ==
    \/ \E r \in Reqs :
         \/ QueryRagInvoke(r) \/ QueryRagSpawn(r) \/ QueryRagReturn(r)
         \/ GeneratePolicyInvoke(r) \/ GeneratePolicySpawn(r) \/ GeneratePolicyReturn(r)
         \/ RunMetrics(r) \/ CollectPolicyMetricsAsync(r)
         \/ SaveExists(r) \/ SaveCreateOpen(r) \/ SaveCreateDump(r)
         \/ SaveRead(r) \/ SaveWriteOpen(r) \/ SaveClose(r)
    \/ GetRawMetrics \/ GetMetricsSummaryExists \/ GetMetricsSummaryLoad
    \/ ClearMetricsOpen \/ ClearMetricsDump

Spec == Init /\ [][Next]_vars

(***************************************************************************)
(* Claims about the request path and the metrics log (Spec)                 *)
(***************************************************************************)
LogSize(f) == Len(Partition(f, "rag")) + Len(Partition(f, "policy"))

SaveDone == {r \in Reqs : bg[r] = "done"}
Returned(k) == {r \in Reqs : fg[r] = "returned" /\ kind[r] = k}

\* C1: two concurrent save_metrics calls against an initially empty log lose
\* nothing: once both have completed (and nothing else has written or cleared
\* the log) the log holds both records.
C1_NoLostUpdate ==
    (/\ Cardinality(SaveDone) = 2
     /\ \A r \in Reqs \ SaveDone : bg[r] \in {"none", "run"}
     /\ ~cleared)
    => /\ LogSize(file) = 2
       /\ \A r \in SaveDone : \E i \in 1..Len(Partition(file, kind[r])) :
              Partition(file, kind[r])[i] = rec[r]

\* C2: once every request has completed and every evaluation thread has
\* finished, the "rag" partition holds one record per returned query_rag call
\* and the "policy" partition one per returned generate_policy call.
C2_OneRecordPerEvent ==
    (/\ \A r \in Reqs : fg[r] \in {"idle", "raised", "returned"}
     /\ \A r \in Reqs : bg[r] \in {"none", "done", "failed"}
     /\ ~cleared)
    => /\ Len(Partition(file, "rag")) = Cardinality(Returned("rag"))
       /\ Len(Partition(file, "policy")) = Cardinality(Returned("policy"))

ExpectedResponse(r) ==
    IF kind[r] = "rag" THEN [kind |-> "answer", text |-> ans[r]]
    ELSE [kind |-> "policy", generated_policy |-> ans[r],
          country |-> PolicyCountry, retrieved_sources |-> Len(RetrievedDocs)]

C3_State ==
    \A r \in Reqs :
      \* the handler can return as soon as the thread is started, whatever the
      \* thread is doing
      /\ fg[r] = "spawned" => ENABLED (QueryRagReturn(r) \/ GeneratePolicyReturn(r))
      \* what it returns is the model's output
      /\ fg[r] = "returned" => response[r] = ExpectedResponse(r) /\ ans[r] \in Answers
      /\ fg[r] # "returned" => response[r] = NoResponse
      \* the only exception a caller sees is the generation error, raised before
      \* any thread exists
      /\ raised[r] \in {"none", "GenerationError"}
      /\ raised[r] # "none" => bg[r] = "none"
      /\ bg[r] # "none" => ans[r] \in Answers

C3_Step ==
    \A r \in Reqs :
      \* the answer is fixed once the thread exists, the response once returned
      /\ bg[r] # "none" => ans'[r] = ans[r] /\ raised'[r] = raised[r]
      /\ fg[r] = "returned" => response'[r] = response[r] /\ fg'[r] = "returned"
      \* a step of the evaluation thread changes nothing the caller sees
      /\ (bg[r] # "none" /\ bg'[r] # bg[r])
            => fg'[r] = fg[r] /\ response'[r] = response[r] /\ raised'[r] = raised[r]

\* C3: the foreground response never depends on evaluation: the handler
\* returns without joining the thread, the returned value is the model's
\* output fixed before evaluation starts, whatever the thread does (succeeds,
\* raises, never ends), and no evaluation error reaches the caller.
C3_ForegroundIndependent == []C3_State /\ [][C3_Step]_vars

\* a request has returned its answer while its evaluation failed in
\* save_metrics, another while its evaluation has not yet run
C3_Witness ==
    \E r1, r2 \in Reqs :
      /\ fg[r1] = "returned" /\ bg[r1] = "failed" /\ response[r1] = ExpectedResponse(r1)
      /\ fg[r2] = "returned" /\ bg[r2] = "run" /\ response[r2] = ExpectedResponse(r2)

\* C4: every read of the log (save_metrics' own read, get_metrics_summary,
\* get_raw_metrics) that runs concurrently with save_metrics calls observes a
\* complete, parseable mapping.
C4_ReadsParse ==
    ~cleared => /\ \A r \in Reqs : printed[r] # "JSONDecodeError"
                /\ apiOut.status # "raised"

C5_State ==
    \A r \in Reqs :
      fg[r] = "raised" => /\ raised[r] = "GenerationError"
                          /\ response[r] = NoResponse
                          /\ ans[r] = <<>>
                          /\ bg[r] = "none"
                          /\ rec[r] = NoRecord

C5_Step ==
    \A r \in Reqs :
      /\ (fg[r] # "raised" /\ fg'[r] = "raised") => file' = file
      /\ fg[r] = "raised" => fg'[r] = "raised" /\ bg'[r] = "none"

\* C5: when the model call of query_rag or generate_policy fails, the failure
\* is raised to the caller: no answer is returned, no evaluation thread is
\* started, and the request leaves the metrics log as it was.
C5_GenerationErrorPropagates == []C5_State /\ [][C5_Step]_vars

\* one request failed in the model call while the log holds the record of
\* another
C5_Witness ==
    \E r1, r2 \in Reqs :
      /\ fg[r1] = "raised" /\ raised[r1] = "GenerationError"
      /\ bg[r2] = "done" /\ LogSize(file) = 1

(***************************************************************************)
(* rag_query.py: rewrite_question_with_history                              *)
(***************************************************************************)
HistoryWindow == 6

NoHistory == [none |-> TRUE, turns |-> <<>>]
HistoryOf(turns) == [none |-> FALSE, turns |-> turns]

RoleUser == <<"u", "s", "e", "r">>
RoleAssistant == <<"a", "s", "s", "i", "s", "t", "a", "n", "t">>
RoleSystem == <<"s", "y", "s", "t", "e", "m">>

\* history[-6:]
LastTurnsFirst(turns) ==
    SubSeq(turns, 1, IF Len(turns) > HistoryWindow THEN HistoryWindow ELSE Len(turns))

LastTurns(turns) ==
    SubSeq(turns, IF Len(turns) > HistoryWindow THEN Len(turns) - HistoryWindow + 1 ELSE 1,
           Len(turns))

\* f"{role}: {content}"
RenderTurn(msg) == msg.role \o <<":", " ">> \o msg.content

\* the for loop: a turn is appended only when its role is user or assistant
\* and its content is not empty
RECURSIVE RecentTurns(_)
RecentTurns(msgs) ==
    IF msgs = <<>> THEN <<>>
    ELSE (IF Head(msgs).role \in {RoleUser, RoleAssistant} /\ Head(msgs).content # <<>>
          THEN <<RenderTurn(Head(msgs))>> ELSE <<>>) \o RecentTurns(Tail(msgs))

HintOpen == <<"[", "F", "o", "l", "l", "o", "w", "-", "u", "p", " ", "b", "a", "s", "e", "d", " ", "o", "n", ":", " ">>
HintClose == <<"]", " ">>
HintSep == <<" ", "|", " ">>

\* a rewriter without the early return
RewriteAlwaysPrefix(question, history) ==
    HintOpen \o Join(HintSep, RecentTurns(LastTurns(history.turns))) \o HintClose \o question

RewriteQuestionWithHistory(question, history) ==
    IF history.none \/ history.turns = <<>> THEN question
    ELSE HintOpen \o Join(HintSep, RecentTurns(LastTurns(history.turns))) \o HintClose \o question

TurnSamples ==
    {[role |-> RoleUser, content |-> <<"a">>],
     [role |-> RoleAssistant, content |-> <<"b", " ", "c">>],
     [role |-> RoleUser, content |-> <<>>],
     [role |-> RoleSystem, content |-> <<"d">>]}

QuestionSamples == {<<>>, <<"q", "]", " ", "a">>}

RECURSIVE SeqsUpTo(_, _)
SeqsUpTo(S, n) ==
    IF n = 0 THEN {<<>>}
    ELSE LET shorter == SeqsUpTo(S, n - 1)
         IN shorter \cup {Append(q, x) : q \in {t \in shorter : Len(t) = n - 1}, x \in S}

RwInit ==
    /\ rwQuestion \in QuestionSamples
    /\ rwHistory \in {NoHistory} \cup {HistoryOf(t) : t \in SeqsUpTo(TurnSamples, MaxHist)}
    /\ rwOut = [done |-> FALSE, value |-> <<>>]

CallRewrite ==
    /\ ~rwOut.done
    /\ rwOut' = [done |-> TRUE, value |-> RewriteQuestionWithHistory(rwQuestion, rwHistory)]
    /\ UNCHANGED <<rwQuestion, rwHistory, concVars, idxVars, evVars>>

RewriteInit == RwInit /\ ConcParked /\ IdxParked /\ EvParked

RewriteNext == CallRewrite

SpecRewrite == RewriteInit /\ [][RewriteNext]_vars

\* C8: with an empty history (an empty list or None) the rewriter returns the
\* question unchanged.
C8_RewriteIdentity ==
    (rwOut.done /\ (rwHistory.none \/ Len(rwHistory.turns) = 0)) => rwOut.value = rwQuestion

\* the rewriter has run on a non-empty question with history []
C8_Witness ==
    /\ rwOut.done /\ ~rwHistory.none /\ rwHistory.turns = <<>>
    /\ rwQuestion # <<>> /\ rwOut.value = rwQuestion

\* the last (up to) six turns of h, oldest first
WindowOf(h) == [i \in 1..(IF Len(h) < 6 THEN Len(h) ELSE 6) |->
                   h[Len(h) - (IF Len(h) < 6 THEN Len(h) ELSE 6) + i]]

RenderedAs(turns) == [i \in 1..Len(turns) |-> turns[i].role \o <<":", " ">> \o turns[i].content]

IsChatTurn(t) == t.role \in {RoleUser, RoleAssistant} /\ Len(t.content) > 0

\* C9 as stated: for a non-empty history the result is the hint block holding
\* exactly the last six turns, each rendered "{role}: {content}", in order and
\* joined by the delimiter, followed by the unaltered question.
C9_HintHoldsLastSix ==
    (rwOut.done /\ ~rwHistory.none /\ rwHistory.turns # <<>>)
    => rwOut.value = HintOpen \o Join(HintSep, RenderedAs(WindowOf(rwHistory.turns)))
                     \o HintClose \o rwQuestion

\* C9 as amended: the hint block holds exactly those of the last six turns
\* whose role is user or assistant and whose content is not empty, each
\* rendered "{role}: {content}", in order and joined by the delimiter,
\* followed by the unaltered question; no older turn appears.
C9_HintHoldsValidLastSix ==
    (rwOut.done /\ ~rwHistory.none /\ rwHistory.turns # <<>>)
    => rwOut.value = HintOpen
                     \o Join(HintSep, RenderedAs(SelectSeq(WindowOf(rwHistory.turns), IsChatTurn)))
                     \o HintClose \o rwQuestion

\* the rewriter has run on a history of more than six turns, one of the last
\* six of which is skipped
C9_Witness ==
    /\ rwOut.done /\ ~rwHistory.none /\ Len(rwHistory.turns) > 6
    /\ \E i \in 1..Len(WindowOf(rwHistory.turns)) : ~IsChatTurn(WindowOf(rwHistory.turns)[i])
    /\ \E i \in 1..Len(WindowOf(rwHistory.turns)) : IsChatTurn(WindowOf(rwHistory.turns)[i])
    /\ IsChatTurn(rwHistory.turns[1])
    /\ rwQuestion # <<>>

(***************************************************************************)
(* rag_index.py: build_or_load_index                                        *)
(***************************************************************************)
EnvUnset == [set |-> FALSE, val |-> <<>>]
EnvSet(v) == [set |-> TRUE, val |-> v]

\* os.getenv("FORCE_REBUILD", "0").lower() in {"1", "true", "yes"}
EnvForce(env) ==
    Lower(IF env.set THEN env.val ELSE <<"0">>) \in {<<"1">>, <<"t", "r", "u", "e">>, <<"y", "e", "s">>}

\* a decision that looks at the snapshot only
ShouldLoadIgnoringForce(snap, force_rebuild, env) == snap.exists

\* line 36: os.path.exists(INDEX_DIR) and not force
ShouldLoad(snap, force_rebuild, env) ==
    LET force == force_rebuild \/ EnvForce(env)
    IN snap.exists /\ ~force

EnvValues ==
    {EnvUnset, EnvSet(<<>>), EnvSet(<<"0">>), EnvSet(<<"1">>), EnvSet(<<"t", "r", "u", "e">>),
     EnvSet(<<"T", "R", "U", "E">>), EnvSet(<<"Y", "e", "s">>), EnvSet(<<"n", "o">>)}

IdxInit ==
    /\ snapshot \in {[exists |-> FALSE, content |-> 0], [exists |-> TRUE, content |-> 0]}
    /\ corpus = 1
    /\ envForce \in EnvValues
    /\ idxCall = [op |-> "none"]
    /\ idxCalls = 0

\* one call of build_or_load_index(force_rebuild=arg); a build that raises
\* (an unreadable PDF, a failed web request, no data/web.json) saves nothing
BuildOrLoadIndex(arg) ==
    /\ idxCalls < MaxIdxCalls
    /\ idxCalls' = idxCalls + 1
    /\ IF ShouldLoad(snapshot, arg, envForce)
       THEN /\ idxCall' = [op |-> "load", arg |-> arg, env |-> envForce, had |-> snapshot.exists,
                           before |-> snapshot, db |-> snapshot.content]
            /\ UNCHANGED snapshot
       ELSE \/ /\ snapshot' = [exists |-> TRUE, content |-> corpus]
               /\ idxCall' = [op |-> "build", arg |-> arg, env |-> envForce,
                              had |-> snapshot.exists, before |-> snapshot, db |-> corpus]
            \/ /\ idxCall' = [op |-> "build_raised", arg |-> arg, env |-> envForce,
                              had |-> snapshot.exists, before |-> snapshot, db |-> 0]
               /\ UNCHANGED snapshot
    /\ UNCHANGED <<corpus, envForce, concVars, rwVars, evVars>>

\* the operator restarts the service with another FORCE_REBUILD
SetEnv(e) ==
    /\ envForce # e
    /\ envForce' = e
    /\ UNCHANGED <<snapshot, corpus, idxCall, idxCalls, concVars, rwVars, evVars>>

\* documents are added under data/policies
AddDocuments ==
    /\ corpus < MaxCorpus
    /\ corpus' = corpus + 1
    /\ UNCHANGED <<snapshot, envForce, idxCall, idxCalls, concVars, rwVars, evVars>>

IdxNext ==
    \/ \E arg \in BOOLEAN : BuildOrLoadIndex(arg)
    \/ \E e \in EnvValues : SetEnv(e)
    \/ AddDocuments

IndexInit == IdxInit /\ ConcParked /\ RwParked /\ EvParked

SpecIndex == IndexInit /\ [][IdxNext]_vars

\* the override as the claim words it: the argument is true, or FORCE_REBUILD
\* is one of 1, true, yes (in any letter case)
OverrideGiven(arg, env) ==
    arg \/ (env.set /\ env.val \in {<<"1">>, <<"t", "r", "u", "e">>, <<"T", "R", "U", "E">>, <<"Y", "e", "s">>})

C7_State ==
    idxCall.op # "none" =>
      \* a build is attempted iff the override is given or there was no snapshot
      /\ idxCall.op \in {"build", "build_raised"}
            <=> (OverrideGiven(idxCall.arg, idxCall.env) \/ ~idxCall.had)
      \* a build persists a snapshot of the corpus
      /\ idxCall.op = "build" => snapshot = [exists |-> TRUE, content |-> idxCall.db]
      \* a load returns the existing snapshot and writes nothing
      /\ idxCall.op = "load" => idxCall.had /\ snapshot = idxCall.before
                                /\ idxCall.db = snapshot.content

C7_Step ==
    \* a snapshot, once there, stays, so a later non-forced call loads
    /\ snapshot.exists => snapshot'.exists
    /\ (idxCalls' # idxCalls /\ snapshot.exists /\ ~OverrideGiven(idxCall'.arg, idxCall'.env))
          => idxCall'.op = "load" /\ snapshot' = snapshot

\* C7: build_or_load_index builds (and persists a snapshot) iff the override
\* is set (argument, or FORCE_REBUILD in 1/true/yes) or no snapshot exists;
\* otherwise it loads the snapshot without building; after a successful build
\* a later non-forced call loads.
C7_BuildIffForcedOrMissing == []C7_State /\ [][C7_Step]_vars

\* a non-forced call loaded the snapshot that an earlier call of this run built
C7_Witness ==
    /\ idxCall.op = "load" /\ ~idxCall.arg /\ idxCalls >= 2
    /\ snapshot.content >= 1 /\ idxCall.db = snapshot.content

(***************************************************************************)
(* SpecEval: evaluate_with_ragas and collect_*_metrics on drawn inputs      *)
(***************************************************************************)
QuerySamples == {<<>>, <<"A", " ", "b">>, <<"a", " ", "b", " ", "c", " ", "d">>}
ContextSamples == {<<>>, <<"a", " ", "a">>, <<"B", " ", "c", " ", "e">>}
PolicySamples == {<<"p">>, <<"p", "o", "l">>}

Cells ==
    {[k |-> "num", v |-> R(9, 10)], [k |-> "num", v |-> NaN],
     [k |-> "list", v |-> <<R(3, 10)>>], [k |-> "list", v |-> <<>>], [k |-> "other"]}

AbsentCell == [k |-> "absent"]

\* the library result drawn as (shape, rows, upto, one cell or none per metric);
\* a DataFrame also has the dataset's own columns
LibOf(shape, rows, upto, fcell, acell) ==
    IF shape = "raise" THEN LibRaises
    ELSE LET cols == {c \in LibMetricNames :
                        (IF c = "faithfulness" THEN fcell ELSE acell) # AbsentCell}
                     \cup (IF shape = "pandas" THEN {"user_input"} ELSE {})
         IN [shape |-> shape, rows |-> rows, upto |-> upto,
             vals |-> [c \in cols |-> IF c = "faithfulness" THEN fcell
                                      ELSE IF c = "answer_relevancy" THEN acell
                                      ELSE [k |-> "other"]]]

\* what the evaluation library may do: raise, or hand back a result of one of
\* the three shapes evaluate_with_ragas knows
LibDraws ==
    {<<"raise", 1, {}>>, <<"pandas", 0, {}>>, <<"pandas", 1, {}>>, <<"attrs", 1, {}>>}
    \cup {<<"iter", 1, u>> : u \in SUBSET LibMetricNames}

EvInit ==
    /\ \E d \in LibDraws, fcell \in Cells \cup {AbsentCell}, acell \in Cells \cup {AbsentCell},
          q \in QuerySamples, a \in PolicySamples, c \in SeqsUpTo(ContextSamples, MaxCtx) :
         /\ d[1] = "raise" => (fcell = AbsentCell /\ acell = AbsentCell)
         /\ evIn = [query |-> q, answer |-> a, contexts |-> c,
                    lib |-> LibOf(d[1], d[2], d[3], fcell, acell)]
    /\ evOut = [fn |-> "none"]
    /\ evPc = "start"

CallEvaluateWithRagas ==
    /\ evPc = "start"
    /\ evOut' = [fn |-> "evaluate_with_ragas",
                 value |-> EvaluateWithRagas(evIn.query, evIn.answer, evIn.contexts, evIn.lib)]
    /\ evPc' = "done"
    /\ UNCHANGED <<evIn, concVars, idxVars, rwVars>>

CallCollectRagMetrics ==
    /\ evPc = "start"
    /\ \E now \in Instants :
         evOut' = [fn |-> "collect_rag_metrics",
                   value |-> CollectRagMetrics(evIn.query, evIn.answer, evIn.contexts,
                                               evIn.lib, now)]
    /\ evPc' = "done"
    /\ UNCHANGED <<evIn, concVars, idxVars, rwVars>>

\* the query sample serves as the target country
CallCollectPolicyMetrics ==
    /\ evPc = "start"
    /\ \E now \in Instants :
         evOut' = [fn |-> "collect_policy_metrics",
                   value |-> CollectPolicyMetrics(evIn.answer, evIn.contexts, evIn.query,
                                                  evIn.lib, now)]
    /\ evPc' = "done"
    /\ UNCHANGED <<evIn, concVars, idxVars, rwVars>>

EvalInit == EvInit /\ ConcParked /\ IdxParked /\ RwParked

EvalNext == CallEvaluateWithRagas \/ CallCollectRagMetrics \/ CallCollectPolicyMetrics

SpecEval == EvalInit /\ [][EvalNext]_vars

AllMetricKeys ==
    {"faithfulness", "answer_relevancy", "context_precision", "context_recall", "ragas_score"}

IsScore(x) == DOMAIN x = {"num", "den"} /\ x.den > 0

CompleteMetrics(m) ==
    /\ DOMAIN m = AllMetricKeys
    /\ \A k \in AllMetricKeys : IsScore(m[k])
    /\ m["faithfulness"] = [num |-> 1, den |-> 2]

CompleteInterpretation(i) ==
    /\ DOMAIN i = {"overall_quality", "strengths", "weaknesses", "recommendations"}
    /\ i.overall_quality \in {"Excellent", "Good", "Fair", "Poor"}
    /\ Len(i.recommendations) >= 1

\* C6: when the scoring-library call throws, evaluate_with_ragas returns a
\* complete metrics mapping (all five keys) with faithfulness = 0.5, and
\* collect_rag_metrics / collect_policy_metrics return a complete record:
\* timestamp, metrics, interpretation, source count and length.
C6_LibraryFailureGivesCompleteRecord ==
    (evPc = "done" /\ evIn.lib.shape = "raise") =>
      /\ evOut.fn = "evaluate_with_ragas" => CompleteMetrics(evOut.value)
      /\ evOut.fn = "collect_rag_metrics" =>
            /\ DOMAIN evOut.value = {"timestamp", "query", "ragas_metrics", "num_retrieved_docs",
                                     "context_length", "interpretation"}
            /\ evOut.value.timestamp \in Instants
            /\ CompleteMetrics(evOut.value.ragas_metrics)
            /\ CompleteInterpretation(evOut.value.interpretation)
            /\ evOut.value.num_retrieved_docs = Len(evIn.contexts)
      /\ evOut.fn = "collect_policy_metrics" =>
            /\ DOMAIN evOut.value = {"timestamp", "target_country", "ragas_metrics",
                                     "num_retrieved_sources", "policy_length", "interpretation"}
            /\ evOut.value.timestamp \in Instants
            /\ CompleteMetrics(evOut.value.ragas_metrics)
            /\ CompleteInterpretation(evOut.value.interpretation)
            /\ evOut.value.num_retrieved_sources = Len(evIn.contexts)
            /\ evOut.value.policy_length = Len(evIn.answer)

\* collect_policy_metrics has run with a library that throws, on a non-empty
\* context list
C6_Witness ==
    /\ evPc = "done" /\ evIn.lib.shape = "raise" /\ evOut.fn = "collect_policy_metrics"
    /\ Len(evIn.contexts) > 0
    /\ evOut.value.ragas_metrics["faithfulness"] = [num |-> 1, den |-> 2]

(***************************************************************************)
(* SpecInterp: _interpret_ragas_scores on drawn score mappings              *)
(***************************************************************************)
AggregateSamples ==
    {R(0, 1), R(39, 100), R(4, 10), R(59, 100), R(6, 10), R(79, 100), R(8, 10), R(9, 10),
     R(1, 1), NaN}
MetricSamples ==
    {R(49, 100), R(5, 10), R(59, 100), R(6, 10), R(79, 100), R(8, 10), R(9, 10)}

\* a key that the mapping does not hold
MissingKey == [num |-> 0, den |-> -1]

MappingOf(f, a, p, r, agg) ==
    LET all == [faithfulness |-> f, answer_relevancy |-> a, context_precision |-> p,
                context_recall |-> r, ragas_score |-> agg]
    IN [k \in {x \in DOMAIN all : all[x] # MissingKey} |-> all[k]]

InterpInit ==
    /\ \E f \in MetricSamples \cup {MissingKey}, a \in MetricSamples \cup {MissingKey},
          p \in MetricSamples, r \in MetricSamples, agg \in AggregateSamples \cup {MissingKey} :
         evIn = [metrics |-> MappingOf(f, a, p, r, agg)]
    /\ evOut = [fn |-> "none"]
    /\ evPc = "start"
    /\ ConcParked /\ IdxParked /\ RwParked

CallInterpretRagasScores ==
    /\ evPc = "start"
    /\ evOut' = [fn |-> "_interpret_ragas_scores", value |-> InterpretRagasScores(evIn.metrics)]
    /\ evPc' = "done"
    /\ UNCHANGED <<evIn, concVars, idxVars, rwVars>>

InterpNext == CallInterpretRagasScores

SpecInterp == InterpInit /\ [][InterpNext]_vars

HasAggregate(m) == "ragas_score" \in DOMAIN m /\ m["ragas_score"].den > 0
\* aggregate >= n/10, resp. < n/10, for an aggregate that is a number
AggAtLeast(m, n) == HasAggregate(m) /\ m["ragas_score"].num * 10 >= n * m["ragas_score"].den
AggBelow(m, n) == HasAggregate(m) /\ m["ragas_score"].num * 10 < n * m["ragas_score"].den

AllNineTenths(m) ==
    /\ DOMAIN m = AllMetricKeys
    /\ \A k \in AllMetricKeys : m[k] = [num |-> 9, den |-> 10]

\* C10: the tier is a total function of the aggregate: >= 0.8 Excellent,
\* [0.6, 0.8) Good, [0.4, 0.6) Fair, anything else (lower, missing, not a
\* number) Poor; with all four metrics 0.9 the tier is Excellent, all four
\* are strengths and there is no weakness.
C10_TierFromAggregate ==
    evPc = "done" =>
      LET m == evIn.metrics
          tier == evOut.value.overall_quality
      IN /\ tier = "Excellent" <=> AggAtLeast(m, 8)
         /\ tier = "Good" <=> (AggAtLeast(m, 6) /\ AggBelow(m, 8))
         /\ tier = "Fair" <=> (AggAtLeast(m, 4) /\ AggBelow(m, 6))
         /\ tier = "Poor" <=> (~HasAggregate(m) \/ AggBelow(m, 4))
         /\ AllNineTenths(m) =>
               /\ tier = "Excellent"
               /\ evOut.value.strengths =
                     <<"High faithfulness to context", "High answer relevancy",
                       "High context precision", "High context recall">>
               /\ evOut.value.weaknesses = <<>>

\* the interpretation of a mapping with all four metrics and the aggregate 0.9
C10_Witness ==
    /\ evPc = "done" /\ AllNineTenths(evIn.metrics)
    /\ evOut.value.overall_quality = "Excellent"
    /\ Len(evOut.value.strengths) = 4

\* the recommendation that belongs to the axis a weakness text names
RecommendationForWeakness(w) ==
    CASE w = "Low faithfulness to context" -> "Improve answer faithfulness to retrieved context"
      [] w = "Low answer relevancy" -> "Improve answer relevancy to the query"
      [] w = "Low context precision" -> "Improve context retrieval precision"
      [] OTHER -> "Improve context retrieval recall"

\* C11: the recommendations match the weaknesses: one recommendation for each
\* axis listed as a weakness (score < 0.5), in the same order, none for any
\* other axis, and exactly the single "continue current approach" item when
\* there is no weakness.
C11_RecommendationsMatchWeaknesses ==
    evPc = "done" =>
      LET w == evOut.value.weaknesses
          r == evOut.value.recommendations
      IN IF w = <<>> THEN r = <<ContinueText>>
         ELSE r = [i \in 1..Len(w) |-> RecommendationForWeakness(w[i])]

(***************************************************************************)
(* Claims on the metrics mapping of one evaluation (SpecEval)               *)
(***************************************************************************)
\* the metrics mapping in the result of the call made
EvMetrics ==
    IF evOut.fn = "evaluate_with_ragas" THEN evOut.value ELSE evOut.value.ragas_metrics

\* the query the evaluation ran on
EvQuery ==
    IF evOut.fn = "collect_policy_metrics" THEN PolicyQuery(evIn.query) ELSE evIn.query

\* the try body raised: the library call itself, or float() of a DataFrame cell
TryBodyRaised == evIn.lib.shape = "raise" \/ ExtractMetrics(evIn.lib).raised

Components(m) == DOMAIN m \ {"ragas_score"}

RECURSIVE TotalOf(_, _)
TotalOf(m, ks) ==
    IF ks = {} THEN Zero
    ELSE LET k == CHOOSE x \in ks : TRUE IN Add(m[k], TotalOf(m, ks \ {k}))

Times(a, n) == IF IsNaN(a) THEN NaN ELSE R(a.num * n, a.den)

InUnit(x) == ~IsNaN(x) /\ x.num >= 0 /\ x.num <= x.den

\* C12: the aggregate of a record is the arithmetic mean of its other
\* metrics, which are context_precision, context_recall and those of
\* faithfulness / answer_relevancy that the library result provided; the
\* aggregate is not among the averaged values; when every component lies in
\* [0,1] the aggregate lies in [0,1], between the smallest and the largest.
C12_AggregateIsMeanOfComputed ==
    evPc = "done" =>
      LET m == EvMetrics
          comps == Components(m)
      IN /\ "ragas_score" \in DOMAIN m
         /\ {"context_precision", "context_recall"} \subseteq comps
         /\ comps \subseteq {"faithfulness", "answer_relevancy", "context_precision",
                              "context_recall"}
         /\ ~TryBodyRaised => comps \cap LibMetricNames \subseteq DOMAIN evIn.lib.vals
         /\ Times(m["ragas_score"], Cardinality(comps)) = TotalOf(m, comps)
         /\ (\A c \in comps : InUnit(m[c])) =>
               /\ InUnit(m["ragas_score"])
               /\ \E c \in comps : Geq(m["ragas_score"], m[c])
               /\ \E c \in comps : Geq(m[c], m["ragas_score"])

\* an evaluation whose library result gave faithfulness only: the aggregate is
\* the mean of three values and differs from each of them
C12_Witness ==
    /\ evPc = "done" /\ ~TryBodyRaised
    /\ Components(EvMetrics) = {"faithfulness", "context_precision", "context_recall"}
    /\ InUnit(EvMetrics["ragas_score"])
    /\ \A c \in Components(EvMetrics) : EvMetrics[c] # EvMetrics["ragas_score"]

\* C14: a failure of the evaluation-library call replaces only faithfulness
\* and answer_relevancy with 0.5; context_precision and context_recall of the
\* record are still the lexical-overlap values of the query and the contexts
\* (0.0 for an empty context list).
C14_LibraryFailureKeepsContextMetrics ==
    (evPc = "done" /\ evIn.lib.shape = "raise") =>
      /\ EvMetrics["faithfulness"] = Half
      /\ EvMetrics["answer_relevancy"] = Half
      /\ EvMetrics["context_precision"] = CalculateContextPrecision(EvQuery, evIn.contexts)
      /\ EvMetrics["context_recall"] = CalculateContextRecall(EvQuery, evIn.contexts)
      /\ evIn.contexts = <<>> =>
            (EvMetrics["context_precision"] = Zero /\ EvMetrics["context_recall"] = Zero)

(***************************************************************************)
(* SpecLog: save_metrics, clear_metrics and get_metrics_summary called one  *)
(* after the other, each running to its end before the next starts          *)
(***************************************************************************)
\* save_metrics run alone, lines 256-269: the file it leaves, and whether
\* json.load raised
SaveMetrics(f, metrics, metric_type) ==
    LET created == IF ~f.exists THEN WriteAt(OpenW(f), 0, JsonDump(<<>>)) ELSE f
        p == JsonLoad(created.bytes)
    IN IF p.ok
       THEN [raised |-> FALSE,
             file |-> WriteAt(OpenW(created), 0,
                              JsonDump(AppendRecord(p.val, metric_type, metrics)))]
       ELSE [raised |-> TRUE, file |-> created]

\* clear_metrics run alone
ClearMetrics(f) == WriteAt(OpenW(f), 0, JsonDump(<<>>))

\* get_metrics_summary run alone
GetMetricsSummary(f) ==
    IF ~f.exists THEN [op |-> "summary", status |-> "error", body |-> "No metrics file found"]
    ELSE LET p == JsonLoad(f.bytes)
         IN IF p.ok THEN [op |-> "summary", status |-> "ok", body |-> Summarize(p.val)]
            ELSE [op |-> "summary", status |-> "raised", body |-> "JSONDecodeError"]

\* the records the two collectors hand to save_metrics, with their partition
RagRecords ==
    {CollectRagMetrics(RagQuestion, <<"o", "k">>, docs, lib, 1) :
        docs \in {<<>>, RetrievedDocs},
        lib \in {LibRaises, LibOf("attrs", 1, {}, [k |-> "num", v |-> R(9, 10)], AbsentCell)}}
PolicyRecords ==
    {CollectPolicyMetrics(<<"o", "k">>, RetrievedDocs, PolicyCountry, lib, 1) :
        lib \in {LibRaises, LibScores(R(9, 10), R(3, 10))}}
SaveCalls ==
    {<<m, "rag">> : m \in RagRecords} \cup {<<m, "policy">> : m \in PolicyRecords}

\* the log file found at start: none, the empty log, or a log whose rag
\* partition holds no record
LogInit ==
    /\ file \in {[exists |-> FALSE, bytes |-> <<>>],
                  [exists |-> TRUE, bytes |-> JsonDump(<<>>)],
                  [exists |-> TRUE, bytes |-> JsonDump(<<[k |-> "rag", v |-> <<>>]>>)]}
    /\ fg = <<>> /\ kind = <<>> /\ ans = <<>> /\ response = <<>> /\ raised = <<>>
    /\ bg = <<>> /\ rec = <<>> /\ loaded = <<>> /\ printed = <<>>
    /\ apiPc = "idle" /\ apiOut = NoApiOut /\ apiCalls = 0 /\ cleared = FALSE /\ preClear = {}
    /\ IdxParked /\ RwParked /\ EvParked

logFrame == <<fgVars, bgVars, apiPc, notConc>>

CallSaveMetrics ==
    /\ apiCalls < MaxLogCalls
    /\ apiCalls' = apiCalls + 1
    /\ \E c \in SaveCalls :
         LET out == SaveMetrics(file, c[1], c[2])
         IN /\ file' = out.file
            /\ apiOut' = [op |-> "save", status |-> IF out.raised THEN "raised" ELSE "ok",
                           metrics |-> c[1], metric_type |-> c[2]]
    /\ UNCHANGED <<cleared, preClear, logFrame>>

CallClearMetrics ==
    /\ apiCalls < MaxLogCalls
    /\ apiCalls' = apiCalls + 1
    /\ file' = ClearMetrics(file)
    /\ cleared' = TRUE
    /\ preClear' = LogRecords(file)
    /\ apiOut' = [op |-> "clear", status |-> "ok", body |-> "Metrics cleared successfully"]
    /\ UNCHANGED logFrame

CallGetMetricsSummary ==
    /\ apiCalls < MaxLogCalls
    /\ apiCalls' = apiCalls + 1
    /\ apiOut' = GetMetricsSummary(file)
    /\ UNCHANGED <<file, cleared, preClear, logFrame>>

LogNext == CallSaveMetrics \/ CallClearMetrics \/ CallGetMetricsSummary

SpecLog == LogInit /\ [][LogNext]_vars

\* the partition names of the log as a reader would load it
LogKeys(f) ==
    LET p == JsonLoad(f.bytes)
    IN IF f.exists /\ p.ok THEN {p.val[i].k : i \in 1..Len(p.val)} ELSE {}

PartitionNames == {"rag", "policy"}

\* a record's score for one axis, 0 when the record does not hold it
FieldOf(m, field) ==
    IF "ragas_metrics" \in DOMAIN m /\ field \in DOMAIN m.ragas_metrics
    THEN m.ragas_metrics[field] ELSE Zero

RECURSIVE FieldTotal(_, _)
FieldTotal(ms, field) ==
    IF ms = <<>> THEN Zero ELSE Add(FieldOf(Head(ms), field), FieldTotal(Tail(ms), field))

SourceCountOf(m) ==
    IF "num_retrieved_docs" \in DOMAIN m THEN m.num_retrieved_docs
    ELSE IF "num_retrieved_sources" \in DOMAIN m THEN m.num_retrieved_sources ELSE 0

RECURSIVE SourceTotal(_)
SourceTotal(ms) == IF ms = <<>> THEN 0 ELSE SourceCountOf(Head(ms)) + SourceTotal(Tail(ms))

AverageFields ==
    [avg_ragas_score |-> "ragas_score", avg_faithfulness |-> "faithfulness",
     avg_answer_relevancy |-> "answer_relevancy", avg_context_precision |-> "context_precision",
     avg_context_recall |-> "context_recall"]

\* C13: get_metrics_summary does not fail on a missing or empty log: with no
\* file it returns the no-data result; with a log it returns a summary that
\* has no entry for a partition that is absent or holds no record, and for
\* every other partition, after any sequence of saves and clears,
\* total_queries is the number of records now in the partition and each
\* average times that number is the sum of the field over its records.
C13_SummaryMatchesLog ==
    apiOut.op = "summary" =>
      /\ apiOut.status # "raised"
      /\ ~file.exists =>
            apiOut = [op |-> "summary", status |-> "error", body |-> "No metrics file found"]
      /\ file.exists =>
            /\ apiOut.status = "ok"
            /\ DOMAIN apiOut.body = {k \in LogKeys(file) : Partition(file, k) # <<>>}
            /\ \A k \in DOMAIN apiOut.body :
                  LET ms == Partition(file, k)
                      s == apiOut.body[k]
                  IN /\ s.total_queries = Len(ms)
                     /\ \A a \in DOMAIN AverageFields :
                           Times(s[a], Len(ms)) = FieldTotal(ms, AverageFields[a])
                     /\ Times(s.avg_retrieved_docs, Len(ms)) = R(SourceTotal(ms), 1)

\* a summary taken after a clear and two saves to the rag partition, records
\* with different aggregates among them
C13_Witness ==
    /\ apiOut.op = "summary" /\ apiOut.status = "ok" /\ cleared
    /\ "rag" \in DOMAIN apiOut.body /\ "policy" \notin DOMAIN apiOut.body
    /\ apiOut.body["rag"].total_queries = 2
    /\ FieldOf(Partition(file, "rag")[1], "ragas_score")
          # FieldOf(Partition(file, "rag")[2], "ragas_score")

\* C15: a save_metrics call that runs without interleaving appends its record
\* at the end of its partition, creating the file and the partition when
\* absent, and leaves every other partition and the earlier records of its
\* own partition, in their order, as they were.
C15_Step ==
    (apiCalls' = apiCalls + 1 /\ apiOut'.op = "save") =>
      /\ apiOut'.status = "ok"
      /\ file'.exists /\ JsonLoad(file'.bytes).ok
      /\ LogKeys(file') = LogKeys(file) \cup {apiOut'.metric_type}
      /\ Partition(file', apiOut'.metric_type)
            = Append(Partition(file, apiOut'.metric_type), apiOut'.metrics)
      /\ \A k \in (LogKeys(file') \cup PartitionNames) \ {apiOut'.metric_type} :
            Partition(file', k) = Partition(file, k)

C15_SaveAppendsOnly == [][C15_Step]_vars

\* three saves have run: two different records in the rag partition, in call
\* order behind each other, and one in the policy partition
C15_Witness ==
    /\ apiOut.op = "save" /\ apiOut.status = "ok" /\ apiOut.metric_type = "rag"
    /\ Len(Partition(file, "rag")) = 2 /\ Len(Partition(file, "policy")) = 1
    /\ Partition(file, "rag")[2] = apiOut.metrics
    /\ Partition(file, "rag")[1] # apiOut.metrics

\* C16: once clear_metrics has completed, no record that was in the log
\* before the clear is in the log again, also when a save_metrics was in
\* flight at the clear (a value that two requests both produced is left out:
\* the later request may save it anew).
C16_ClearIsFinal ==
    (cleared /\ apiPc # "clear_dump") =>
      \A v \in preClear \cap LogRecords(file) :
         Cardinality({r \in Reqs : rec[r] = v}) >= 2

====
